---- MODULE Spec2Model ----
(***************************************************************************)
(* Model of the ChatPage component of src/app/page.tsx: the conversation   *)
(* session (sendMessage), the word-by-word reveal of a reply               *)
(* (simulateStreaming and the interval callback it installs) and its       *)
(* cancellation (stopStreaming).                                           *)
(*                                                                         *)
(* A text is a sequence of one-character strings, so that split(" "),      *)
(* slice, join(" ") and trim() are computed as JavaScript computes them.   *)
(* Message ids and timestamps (Date.now()) are not modelled: no handler    *)
(* reads them.  A handler runs to completion before the next event is      *)
(* taken (one JavaScript thread), so each handler, timer callback and      *)
(* promise continuation is one action, and React has rendered the state    *)
(* a handler left before the next handler reads it.                        *)
(*                                                                         *)
(* Spec takes the events the rendered page can deliver: typing and Enter   *)
(* in the input box while it is enabled, a click on the send button while  *)
(* it is rendered and enabled, a click on the stop button while it is      *)
(* rendered.  SpecDispatch adds the events a script or a test dispatches   *)
(* to the input box whatever its disabled attribute says, so that          *)
(* sendMessage runs with any input in any state and only its own guard     *)
(* stands.                                                                 *)
(*                                                                         *)
(* SpecSegmenter is one call of formatTextWithMarkdown on a text drawn     *)
(* from a bounded set: one action per line that lines.forEach visits, and  *)
(* one for the flush and return that follow the loop.  The session does    *)
(* not move in it, and the segmenter does not move in Spec.                *)
(***************************************************************************)
EXTENDS Integers, Sequences, FiniteSets, TLC

VARIABLES
    messages,          \* useState<Message[]>([]): sequence of [role, content]
    input,             \* useState(""): text of the input box
    isLoading,         \* useState(false): the pending flag
    streamingMessage,  \* useState(""): the in-progress text
    isStreaming,       \* useState(false): the streaming flag
    streamIntervalRef, \* useRef(null): 0 is null, else the id of an interval
    timers,            \* the intervals created by setInterval, by id
    fetching,          \* sendMessage calls suspended at `await fetch(...)`
    parsing,           \* sendMessage calls suspended at `await response.json()`
    mounted,           \* the component is mounted
    mdText,            \* formatTextWithMarkdown: its argument text
    lines,             \* formatTextWithMarkdown: text.split("\n")
    lineIndex,         \* formatTextWithMarkdown: the lines forEach has visited
    elements,          \* formatTextWithMarkdown: the blocks pushed so far
    currentList,       \* formatTextWithMarkdown: the items of the pending list
    listType,          \* formatTextWithMarkdown: "ul", "ol" or "null"
    returned           \* formatTextWithMarkdown has returned elements

\* the state of one call of formatTextWithMarkdown
segmenter == <<mdText, lines, lineIndex, elements, currentList, listType, returned>>

vars == <<messages, input, isLoading, streamingMessage, isStreaming,
          streamIntervalRef, timers, fetching, parsing, mounted, segmenter>>

\* the state the handlers of the component read and write
session == <<messages, input, isLoading, streamingMessage, isStreaming,
             streamIntervalRef, timers, fetching, parsing>>

----------------------------------------------------------------------------
\* Bounds of the exploration

\* longest message list explored
MaxMessages == 4

\* most intervals created in one run
MaxTimers == 2

----------------------------------------------------------------------------
\* Texts

\* the empty string ""
Empty == <<>>

\* "a b c"
ABC == <<"a", " ", "b", " ", "c">>

\* "a  b": two spaces between the words
A2B == <<"a", " ", " ", "b">>

\* the reply texts a response body may carry
Replies == {ABC, A2B, Empty}

\* a parsed body without a reply field: data.reply is undefined (no text
\* equals it: texts are made of one-character strings)
Undefined == <<"undefined">>

\* the values the user may put in the input box
Inputs == {Empty, <<" ">>, <<" ", "x">>}

\* the fixed diagnostic text of the catch block ("Sorry, I encountered an error. ...")
ErrorText == <<"E">>

\* position of the first " " in s, 0 when there is none
FirstSpace(s) ==
    IF \E i \in 1..Len(s) : s[i] = " "
    THEN CHOOSE i \in 1..Len(s) : s[i] = " " /\ \A j \in 1..(i-1) : s[j] # " "
    ELSE 0

\* text.split(/ +/): a run of spaces taken as one separator
RECURSIVE split_RunsOfSpaces(_)
split_RunsOfSpaces(s) ==
    LET i == FirstSpace(s)
        rest == SubSeq(s, i+1, Len(s))
        RECURSIVE skip(_)
        skip(r) == IF Len(r) > 0 /\ r[1] = " " THEN skip(Tail(r)) ELSE r
    IN  IF i = 0 THEN <<s>>
        ELSE <<SubSeq(s, 1, i-1)>> \o split_RunsOfSpaces(skip(rest))

\* text.split(" ")
RECURSIVE split(_)
split(s) ==
    LET i == FirstSpace(s)
    IN  IF i = 0 THEN <<s>>
        ELSE <<SubSeq(s, 1, i-1)>> \o split(SubSeq(s, i+1, Len(s)))

\* words.join(" ")
RECURSIVE join(_)
join(ws) ==
    IF Len(ws) = 0 THEN Empty
    ELSE IF Len(ws) = 1 THEN ws[1]
    ELSE ws[1] \o <<" ">> \o join(Tail(ws))

\* words.slice(0, k)
slice(ws, k) == SubSeq(ws, 1, IF k < Len(ws) THEN k ELSE Len(ws))

\* input.trim()
RECURSIVE trim(_)
trim(s) ==
    IF Len(s) = 0 THEN s
    ELSE IF s[1] = " " THEN trim(Tail(s))
    ELSE IF s[Len(s)] = " " THEN trim(SubSeq(s, 1, Len(s)-1))
    ELSE s

----------------------------------------------------------------------------
\* Messages

userMessage(text) == [role |-> "user", content |-> text]

assistantMessage(text) == [role |-> "assistant", content |-> text]

errorMessage == [role |-> "assistant", content |-> ErrorText]

\* a setState call of an unmounted component changes nothing
setState(cur, new) == IF mounted THEN new ELSE cur

\* setMessages((prev) => [...prev, m])
setMessages(m) == messages' = setState(messages, Append(messages, m))

----------------------------------------------------------------------------
\* Intervals

\* the interval setInterval creates in simulateStreaming: its closure holds
\* text, words and currentIndex; live is FALSE once clearInterval was called
\* on it; finalized is a history field, the number of assistant messages
\* appended for this reveal (by its callback or by stopStreaming)
newTimer(text) ==
    [text |-> text, words |-> split(text), currentIndex |-> 0,
     live |-> TRUE, finalized |-> 0]

\* clearInterval(id); clearInterval(null) does nothing
clearInterval(ts, id) ==
    IF id = 0 THEN ts ELSE [ts EXCEPT ![id].live = FALSE]

\* the ids of the intervals that are still scheduled
Live == {t \in 1..Len(timers) : timers[t].live}

----------------------------------------------------------------------------
Init ==
    /\ messages = <<>>
    /\ input = Empty
    /\ isLoading = FALSE
    /\ streamingMessage = Empty
    /\ isStreaming = FALSE
    /\ streamIntervalRef = 0
    /\ timers = <<>>
    /\ fetching = 0
    /\ parsing = 0
    /\ mounted = TRUE
    /\ mdText = Empty
    /\ lines = <<>>
    /\ lineIndex = 0
    /\ elements = <<>>
    /\ currentList = <<>>
    /\ listType = "null"
    /\ returned = FALSE

\* the input box is rendered with disabled={isLoading}
inputDisabled == isLoading

\* the send button is rendered unless isStreaming, with
\* disabled={!input.trim() || isLoading}
sendButtonEnabled == ~isStreaming /\ ~(trim(input) = Empty \/ isLoading)

\* the stop button is rendered in place of the send button when isStreaming
stopButtonRendered == isStreaming

\* setInput(e.target.value)
setInput(v) ==
    /\ input' = v
    /\ UNCHANGED <<messages, isLoading, streamingMessage, isStreaming,
                   streamIntervalRef, timers, fetching, parsing, mounted, segmenter>>

\* the user edits the input box: onChange
onChange(v) ==
    /\ mounted
    /\ ~inputDisabled
    /\ setInput(v)

\* sendMessage without the isLoading test: if (!input.trim()) return
sendMessageReturnsEarly_NoLoading == trim(input) = Empty

\* the guard of sendMessage: if (!input.trim() || isLoading) return
sendMessageReturnsEarly == trim(input) = Empty \/ isLoading

\* sendMessage up to `await fetch(...)`
sendMessage ==
    /\ Len(messages) < MaxMessages
    /\ IF sendMessageReturnsEarly
       THEN UNCHANGED vars
       ELSE /\ setMessages(userMessage(trim(input)))
            /\ input' = Empty
            /\ isLoading' = TRUE
            /\ fetching' = fetching + 1
            /\ UNCHANGED <<streamingMessage, isStreaming, streamIntervalRef,
                           timers, parsing, mounted, segmenter>>

\* the catch and finally blocks of sendMessage
catchFinally ==
    /\ setMessages(errorMessage)
    /\ isLoading' = setState(isLoading, FALSE)

\* fetch rejects (network error): catch, finally
fetchRejected ==
    /\ fetching > 0
    /\ Len(messages) < MaxMessages
    /\ fetching' = fetching - 1
    /\ catchFinally
    /\ UNCHANGED <<input, streamingMessage, isStreaming, streamIntervalRef,
                   timers, parsing, mounted, segmenter>>

\* fetch resolves: if (!response.ok) throw ...; else await response.json()
fetchResolved(ok) ==
    /\ fetching > 0
    /\ Len(messages) < MaxMessages
    /\ fetching' = fetching - 1
    /\ IF ok
       THEN /\ parsing' = parsing + 1
            /\ UNCHANGED <<messages, isLoading>>
       ELSE /\ catchFinally
            /\ UNCHANGED parsing
    /\ UNCHANGED <<input, streamingMessage, isStreaming, streamIntervalRef,
                   timers, mounted, segmenter>>

\* response.json() rejects (malformed body): catch, finally
jsonRejected ==
    /\ parsing > 0
    /\ Len(messages) < MaxMessages
    /\ parsing' = parsing - 1
    /\ catchFinally
    /\ UNCHANGED <<input, streamingMessage, isStreaming, streamIntervalRef,
                   timers, fetching, mounted, segmenter>>

\* simulateStreaming(text, callback): the flags, then split, then setInterval
simulateStreaming(text) ==
    /\ isStreaming' = setState(isStreaming, TRUE)
    /\ streamingMessage' = setState(streamingMessage, Empty)
    /\ timers' = Append(timers, newTimer(text))
    /\ streamIntervalRef' = Len(timers) + 1

\* response.json() resolves with data: simulateStreaming(data.reply, ...), finally.
\* With data.reply undefined, text.split throws after the two setState calls
\* of simulateStreaming, and the catch block runs.
jsonResolved(reply) ==
    /\ parsing > 0
    /\ Len(messages) < MaxMessages
    /\ Len(timers) < MaxTimers
    /\ parsing' = parsing - 1
    /\ IF reply = Undefined
       THEN /\ isStreaming' = setState(isStreaming, TRUE)
            /\ streamingMessage' = setState(streamingMessage, Empty)
            /\ catchFinally
            /\ UNCHANGED <<timers, streamIntervalRef>>
       ELSE /\ simulateStreaming(reply)
            /\ isLoading' = setState(isLoading, FALSE)
            /\ UNCHANGED messages
    /\ UNCHANGED <<input, fetching, mounted, segmenter>>

\* the interval callback of timer t
tick(t) ==
    /\ t \in Live
    /\ LET tm == timers[t]
       IN  IF tm.currentIndex < Len(tm.words)
           THEN /\ streamingMessage' =
                      setState(streamingMessage, join(slice(tm.words, tm.currentIndex + 1)))
                /\ timers' = [timers EXCEPT ![t].currentIndex = tm.currentIndex + 1]
                /\ UNCHANGED <<messages, isStreaming, streamIntervalRef>>
           ELSE /\ Len(messages) < MaxMessages
                /\ timers' = [clearInterval(timers, streamIntervalRef) EXCEPT
                                 ![t].finalized = IF mounted THEN @ + 1 ELSE @]
                /\ streamIntervalRef' = 0
                /\ isStreaming' = setState(isStreaming, FALSE)
                /\ streamingMessage' = setState(streamingMessage, Empty)
                /\ setMessages(assistantMessage(tm.text))
    /\ UNCHANGED <<input, isLoading, fetching, parsing, mounted, segmenter>>

\* stopStreaming testing the flag instead of the handle: if (isStreaming)
stopStreamingHasInterval_Flag == isStreaming

\* the guard of stopStreaming: if (streamIntervalRef.current)
stopStreamingHasInterval == streamIntervalRef # 0

\* stopStreaming
stopStreaming ==
    /\ Len(messages) < MaxMessages
    /\ IF stopStreamingHasInterval
       THEN /\ streamIntervalRef' = 0
            /\ isStreaming' = FALSE
            /\ IF streamingMessage # Empty
               THEN /\ timers' = [clearInterval(timers, streamIntervalRef) EXCEPT
                                     ![streamIntervalRef].finalized = @ + 1]
                    /\ setMessages(assistantMessage(streamingMessage))
                    /\ streamingMessage' = Empty
               ELSE /\ timers' = clearInterval(timers, streamIntervalRef)
                    /\ UNCHANGED <<messages, streamingMessage>>
            /\ UNCHANGED <<input, isLoading, fetching, parsing, mounted, segmenter>>
       ELSE UNCHANGED vars

\* Enter in the input box: handleKeyPress calls sendMessage
handleKeyPress ==
    /\ mounted
    /\ ~inputDisabled
    /\ sendMessage

\* click on the send button: onClick={sendMessage}
clickSend ==
    /\ mounted
    /\ sendButtonEnabled
    /\ sendMessage

\* click on the stop button: onClick={stopStreaming}
clickStop ==
    /\ mounted
    /\ stopButtonRendered
    /\ stopStreaming

\* a change event dispatched to the input box by a script
dispatchChange(v) ==
    /\ mounted
    /\ setInput(v)

\* an Enter key event dispatched to the input box by a script
dispatchKeyPress ==
    /\ mounted
    /\ sendMessage

\* the component is unmounted; no effect of the component has a cleanup
unmount ==
    /\ mounted
    /\ mounted' = FALSE
    /\ UNCHANGED <<session, segmenter>>

Next ==
    \/ \E v \in Inputs : onChange(v)
    \/ handleKeyPress
    \/ clickSend
    \/ fetchRejected
    \/ \E ok \in BOOLEAN : fetchResolved(ok)
    \/ jsonRejected
    \/ \E reply \in Replies \cup {Undefined} : jsonResolved(reply)
    \/ \E t \in 1..MaxTimers : tick(t)
    \/ clickStop
    \/ unmount

Spec == Init /\ [][Next]_vars

NextDispatch ==
    \/ Next
    \/ \E v \in Inputs : dispatchChange(v)
    \/ dispatchKeyPress

SpecDispatch == Init /\ [][NextDispatch]_vars

----------------------------------------------------------------------------
\* The reveals that were started, by the id of their interval
Reveals == 1..Len(timers)

\* the emittedPrefix of reveal t: the first currentIndex words, joined by " "
emittedPrefix(t) == join(slice(timers[t].words, timers[t].currentIndex))

\* a sendMessage call ends in its catch block
TransportFailure ==
    \/ fetchRejected
    \/ fetchResolved(FALSE)
    \/ jsonRejected
    \/ jsonResolved(Undefined)

\* C1: in every reachable state at most one reveal is Active, that is, at
\* most one interval is scheduled; a reveal started while another is Active
\* does not give a second concurrent reveal.
C1_AtMostOneActiveReveal == Cardinality(Live) <= 1

\* C2: every reveal appends at most one finalized result over its lifecycle
\* (the full text on completion or the prefix on cancellation), never the
\* same result twice and never both.
C2_OneFinalizedResult == \A t \in Reveals : timers[t].finalized <= 1

\* C3: every transport failure of a mounted session appends exactly one
\* assistant message with the diagnostic text and leaves both isLoading and
\* isStreaming false.
C3_FailureResetsFlags ==
    [][(mounted /\ TransportFailure) =>
          /\ messages' = Append(messages, errorMessage)
          /\ ~isLoading'
          /\ ~isStreaming']_vars

\* C4: an interval is scheduled only for a reveal that has not exited: the
\* component is mounted and the reveal has appended no finalized result.
C4_TimerReleasedOnExit ==
    \A t \in Live : mounted /\ timers[t].finalized = 0

\* C5: in a mounted session, while a request awaits its reply isLoading is
\* true, isStreaming is false and no in-progress text is exposed; while a
\* reveal is Active isStreaming is true and isLoading is false; isLoading
\* and isStreaming are never both true.
C5_PendingXorStreaming ==
    mounted =>
        /\ (fetching + parsing > 0 =>
                isLoading /\ ~isStreaming /\ streamingMessage = Empty)
        /\ (Live # {} => isStreaming /\ ~isLoading)
        /\ ~(isLoading /\ isStreaming)

\* C6: a sendMessage call while isLoading is true changes nothing (message
\* list and requests in flight included), and at most one request is in
\* flight in every state.
C6_SubmitWhilePendingIsNoOp ==
    [][/\ (isLoading /\ sendMessage) => UNCHANGED vars
       /\ fetching' + parsing' <= 1]_vars

\* C6 witness: a request is in flight, isLoading is true and the input box
\* holds a text that sendMessage would send if it did not return early.
C6_Witness ==
    /\ mounted
    /\ isLoading
    /\ fetching + parsing = 1
    /\ trim(input) # Empty
    /\ Len(messages) < MaxMessages

\* C7: stopStreaming on an Active reveal t that has ticked k >= 1 times and
\* whose prefix is shown appends exactly the first k words of t joined by
\* single spaces, once, and releases the interval of t.
C7_CancelEmitsPrefix ==
    [][\A t \in Reveals :
          (/\ mounted
           /\ stopStreaming
           /\ t \in Live
           /\ timers[t].currentIndex >= 1
           /\ streamingMessage # Empty) =>
              /\ messages' = Append(messages, assistantMessage(emittedPrefix(t)))
              /\ timers'[t].finalized = 1
              /\ ~timers'[t].live]_vars

\* C8: a tick of reveal t in a mounted session sets the in-progress text to
\* the first currentIndex + 1 words and adds one to currentIndex; the tick
\* after the last word ends the reveal, clears the in-progress text and
\* appends the full text, for the first and only time.
C8_TicksRevealInOrder ==
    [][\A t \in Reveals :
          (mounted /\ tick(t)) =>
              IF timers[t].currentIndex < Len(timers[t].words)
              THEN /\ timers'[t].currentIndex = timers[t].currentIndex + 1
                   /\ streamingMessage' =
                          join(slice(timers[t].words, timers[t].currentIndex + 1))
                   /\ messages' = messages
              ELSE /\ ~timers'[t].live
                   /\ streamingMessage' = Empty
                   /\ messages' = Append(messages, assistantMessage(timers[t].text))
                   /\ timers'[t].finalized = 1]_vars

\* C9: stopStreaming on an Active reveal t before any tick, with no
\* in-progress text, appends nothing and ends the reveal: isStreaming is
\* false and the interval of t is released.
C9_CancelBeforeTickEmitsNothing ==
    [][\A t \in Reveals :
          (/\ mounted
           /\ stopStreaming
           /\ t \in Live
           /\ timers[t].currentIndex = 0
           /\ streamingMessage = Empty) =>
              /\ messages' = messages
              /\ ~isStreaming'
              /\ ~timers'[t].live]_vars

\* C10: stopStreaming while no reveal is Active changes nothing: messages,
\* isLoading, isStreaming, streamingMessage and streamIntervalRef keep
\* their values.
C10_CancelWhenIdleIsNoOp ==
    [][(Live = {} /\ stopStreaming) =>
          UNCHANGED <<messages, isLoading, isStreaming, streamingMessage,
                      streamIntervalRef, timers>>]_vars

\* C10 witness: a reveal has ended, none is Active, and the stop button is
\* rendered (isStreaming was left true by a reply without text), so that
\* stopStreaming is called.
C10_Witness ==
    /\ mounted
    /\ Live = {}
    /\ Len(timers) > 0
    /\ stopButtonRendered
    /\ Len(messages) < MaxMessages

----------------------------------------------------------------------------
\* formatTextWithMarkdown: the block segmenter

\* most lines of a text given to formatTextWithMarkdown
MaxLines == 3

\* the lines the texts are made of: "", "- a", "* b", "1. b", "12. a",
\* "# a", "a" and "-a" (a dash without the space of a list marker)
Lines ==
    { <<>>,
      <<"-", " ", "a">>,
      <<"*", " ", "b">>,
      <<"1", ".", " ", "b">>,
      <<"1", "2", ".", " ", "a">>,
      <<"#", " ", "a">>,
      <<"a">>,
      <<"-", "a">> }

\* the sequences of 1 to MaxLines lines
LineSeqs == UNION {[1..n -> Lines] : n \in 1..MaxLines}

\* the text whose lines are ls: the lines joined by "\n"
RECURSIVE joinLines(_)
joinLines(ls) ==
    IF Len(ls) = 0 THEN Empty
    ELSE IF Len(ls) = 1 THEN ls[1]
    ELSE ls[1] \o <<"\n">> \o joinLines(Tail(ls))

\* position of the first "\n" in s, 0 when there is none
FirstNewline(s) ==
    IF \E i \in 1..Len(s) : s[i] = "\n"
    THEN CHOOSE i \in 1..Len(s) : s[i] = "\n" /\ \A j \in 1..(i-1) : s[j] # "\n"
    ELSE 0

\* text.split("\n")
RECURSIVE splitLines(_)
splitLines(s) ==
    LET i == FirstNewline(s)
    IN  IF i = 0 THEN <<s>>
        ELSE <<SubSeq(s, 1, i-1)>> \o splitLines(SubSeq(s, i+1, Len(s)))

\* \s of the regular expressions, over the characters of the texts
isSpace(c) == c = " "

\* \d of the regular expressions
Digits == {"0", "1", "2", "3", "4", "5", "6", "7", "8", "9"}

\* the length of the longest prefix of s whose characters are all in cs
RECURSIVE runLength(_, _)
runLength(s, cs) ==
    IF Len(s) > 0 /\ s[1] \in cs THEN 1 + runLength(Tail(s), cs) ELSE 0

\* s without its first k characters
drop(s, k) == SubSeq(s, k + 1, Len(s))

\* trimmedLine.startsWith("#")
isHeading(s) == Len(s) > 0 /\ s[1] = "#"

\* trimmedLine.match(/^#+/)?.[0].length || 1
headingLevel(s) == LET n == runLength(s, {"#"}) IN IF n = 0 THEN 1 ELSE n

\* trimmedLine.replace(/^#+\s*/, "")
headingText(s) ==
    LET h == drop(s, runLength(s, {"#"})) IN drop(h, runLength(h, {" "}))

\* trimmedLine.match(/^[-*+]\s/)
matchesUl(s) == Len(s) >= 2 /\ s[1] \in {"-", "*", "+"} /\ isSpace(s[2])

\* trimmedLine.match(/^\d+\.\s/)
matchesOl(s) ==
    LET d == runLength(s, Digits)
    IN  d >= 1 /\ Len(s) >= d + 2 /\ s[d+1] = "." /\ isSpace(s[d+2])

\* trimmedLine.replace(/^[-*+]\s/, "") and trimmedLine.replace(/^\d+\.\s/, "")
listItemText(s) ==
    IF matchesUl(s) THEN drop(s, 2)
    ELSE drop(s, runLength(s, Digits) + 2)

\* a pushed element: <br>, <h1>..<h6>, <p>, <ul> or <ol>.  The text of a
\* heading or a paragraph is the argument of formatInlineMarkdown; the spans
\* it is rendered to are not part of the block.
block(tag, level, text, items) ==
    [tag |-> tag, level |-> level, text |-> text, items |-> items]

\* a <li>: text is the argument of formatInlineMarkdown; marker is a history
\* field, the kind of the marker of the line the item came from
listItem(text, marker) == [text |-> text, marker |-> marker]

\* Math.min(level, 6)
min6(n) == IF n < 6 THEN n ELSE 6

\* flushList: the elements after it
flushedElements(els, cur, lt) ==
    IF Len(cur) > 0
    THEN IF lt = "ul" THEN Append(els, block("ul", 0, Empty, cur))
         ELSE IF lt = "ol" THEN Append(els, block("ol", 0, Empty, cur))
         ELSE els
    ELSE els

\* flushList: currentList after it
flushedList(cur) == <<>>

\* flushList: listType after it
flushedType(cur, lt) == IF Len(cur) > 0 THEN "null" ELSE lt

\* the test of a list line taken for a test that no list is pending:
\* if (listType === null)
startsNewList_OnlyWhenNone(type) == listType = "null"

\* the test of a list line of the given type: if (listType !== "ul"), if (listType !== "ol")
startsNewList(type) == listType # type

\* a list line of the given type: flush and restart on a type change, then push the item
listLine(type, s) ==
    /\ IF startsNewList(type)
       THEN /\ elements' = flushedElements(elements, currentList, listType)
            /\ currentList' = Append(flushedList(currentList), listItem(listItemText(s), type))
            /\ listType' = type
       ELSE /\ currentList' = Append(currentList, listItem(listItemText(s), type))
            /\ UNCHANGED <<elements, listType>>

\* a line that is not a list line: flushList, then push the element e
otherLine(e) ==
    /\ elements' = Append(flushedElements(elements, currentList, listType), e)
    /\ currentList' = flushedList(currentList)
    /\ listType' = flushedType(currentList, listType)

\* one call of the callback of lines.forEach
forEachLine ==
    /\ ~returned
    /\ lineIndex < Len(lines)
    /\ LET trimmedLine == trim(lines[lineIndex + 1])
       IN  IF Len(trimmedLine) = 0
           THEN otherLine(block("br", 0, Empty, <<>>))
           ELSE IF isHeading(trimmedLine)
           THEN otherLine(block("h", min6(headingLevel(trimmedLine)),
                                headingText(trimmedLine), <<>>))
           ELSE IF matchesUl(trimmedLine)
           THEN listLine("ul", trimmedLine)
           ELSE IF matchesOl(trimmedLine)
           THEN listLine("ol", trimmedLine)
           ELSE otherLine(block("p", 0, trimmedLine, <<>>))
    /\ lineIndex' = lineIndex + 1
    /\ UNCHANGED <<mdText, lines, returned, session, mounted>>

\* after the loop: flushList(), return elements
flushAndReturn ==
    /\ ~returned
    /\ lineIndex = Len(lines)
    /\ elements' = flushedElements(elements, currentList, listType)
    /\ currentList' = flushedList(currentList)
    /\ listType' = flushedType(currentList, listType)
    /\ returned' = TRUE
    /\ UNCHANGED <<mdText, lines, lineIndex, session, mounted>>

\* formatTextWithMarkdown is called on the text of 1 to MaxLines lines
InitSegmenter ==
    /\ messages = <<>>
    /\ input = Empty
    /\ isLoading = FALSE
    /\ streamingMessage = Empty
    /\ isStreaming = FALSE
    /\ streamIntervalRef = 0
    /\ timers = <<>>
    /\ fetching = 0
    /\ parsing = 0
    /\ mounted = TRUE
    /\ \E ls \in LineSeqs :
          /\ mdText = joinLines(ls)
          /\ lines = splitLines(joinLines(ls))
    /\ lineIndex = 0
    /\ elements = <<>>
    /\ currentList = <<>>
    /\ listType = "null"
    /\ returned = FALSE

NextSegmenter ==
    \/ forEachLine
    \/ flushAndReturn

SpecSegmenter == InitSegmenter /\ [][NextSegmenter]_vars

----------------------------------------------------------------------------
\* the kind of block a line gives: "br", "h", "ul", "ol" or "p"
lineKind(line) ==
    LET t == trim(line)
    IN  IF Len(t) = 0 THEN "br"
        ELSE IF isHeading(t) THEN "h"
        ELSE IF matchesUl(t) THEN "ul"
        ELSE IF matchesOl(t) THEN "ol"
        ELSE "p"

\* the markers of the items of a list, in order
RECURSIVE itemMarkers(_)
itemMarkers(items) ==
    IF Len(items) = 0 THEN <<>>
    ELSE <<items[1].marker>> \o itemMarkers(Tail(items))

\* the lines behind a sequence of blocks, by kind: one entry for a <br>, a
\* heading or a paragraph, one entry per item for a list
RECURSIVE blockKinds(_)
blockKinds(els) ==
    IF Len(els) = 0 THEN <<>>
    ELSE (IF els[1].tag \in {"ul", "ol"}
          THEN itemMarkers(els[1].items)
          ELSE <<els[1].tag>>) \o blockKinds(Tail(els))

\* the text "- a\n1. b"
DashThenNumber == <<"-", " ", "a", "\n", "1", ".", " ", "b">>

\* C11: the segmenter holds at most one pending list, of a single type; every
\* emitted list block is non-empty and holds items of its own type only, so a
\* list line of the other type flushes the pending list and starts a new one;
\* the blocks and the pending items follow the lines visited in input order,
\* so the pending list is flushed before any blank, heading or paragraph
\* block; nothing is pending once the function has returned, and "- a\n1. b"
\* returns an unordered list of "a" followed by an ordered list of "b".
C11_ListsDoNotMergeAcrossTypes ==
    /\ (currentList = <<>>) <=> (listType = "null")
    /\ \A i \in 1..Len(currentList) : currentList[i].marker = listType
    /\ \A k \in 1..Len(elements) :
          elements[k].tag \in {"ul", "ol"} =>
              /\ Len(elements[k].items) > 0
              /\ \A i \in 1..Len(elements[k].items) :
                    elements[k].items[i].marker = elements[k].tag
    /\ blockKinds(elements) \o itemMarkers(currentList) =
          [i \in 1..lineIndex |-> lineKind(lines[i])]
    /\ returned =>
          /\ currentList = <<>>
          /\ mdText = DashThenNumber =>
                elements = << block("ul", 0, Empty, <<listItem(<<"a">>, "ul")>>),
                              block("ol", 0, Empty, <<listItem(<<"b">>, "ol")>>) >>

\* C11 witness: formatTextWithMarkdown has returned for "- a\n1. b", with an
\* unordered list block followed by an ordered list block.
C11_Witness ==
    /\ returned
    /\ mdText = DashThenNumber
    /\ Len(elements) = 2
    /\ elements[1].tag = "ul"
    /\ elements[2].tag = "ol"

----------------------------------------------------------------------------
\* p is a character prefix of s
IsPrefix(p, s) == Len(p) <= Len(s) /\ SubSeq(s, 1, Len(p)) = p

\* a tick of reveal t in a mounted session that shows one more word leaves an
\* exact character prefix of the full text in streamingMessage, and the full
\* text itself when the word is the last one
TickShowsPrefix(t) ==
    (/\ mounted
     /\ tick(t)
     /\ timers[t].currentIndex < Len(timers[t].words)) =>
        /\ IsPrefix(streamingMessage', timers[t].text)
        /\ timers[t].currentIndex + 1 = Len(timers[t].words) =>
              streamingMessage' = timers[t].text

\* stopStreaming runs on the reveal in streamIntervalRef right after its last
\* word was shown: streamingMessage is its full text
CancelAfterLastWord ==
    /\ mounted
    /\ stopStreaming
    /\ streamIntervalRef # 0
    /\ timers[streamIntervalRef].currentIndex = Len(timers[streamIntervalRef].words)
    /\ streamingMessage = timers[streamIntervalRef].text

\* C12 as stated: every tick shows an exact character prefix of fullText, the
\* n-th tick of an n-piece text shows fullText, and a cancel at that point
\* appends the complete reply as an assistant message.
C12_PrefixThenCancelAppendsReply ==
    [][/\ \A t \in Reveals : TickShowsPrefix(t)
       /\ CancelAfterLastWord =>
             messages' = Append(messages,
                                assistantMessage(timers[streamIntervalRef].text))]_vars

\* C12 amended: every tick shows an exact character prefix of fullText, the
\* n-th tick of an n-piece text shows fullText, and a cancel at that point
\* appends the complete reply when it is not the empty string and appends
\* nothing when it is.
C12_PrefixThenCancelAppendsNonEmptyReply ==
    [][/\ \A t \in Reveals : TickShowsPrefix(t)
       /\ CancelAfterLastWord =>
             IF timers[streamIntervalRef].text # Empty
             THEN messages' = Append(messages,
                                     assistantMessage(timers[streamIntervalRef].text))
             ELSE messages' = messages]_vars

\* C12 witness: the reveal of "a  b" has shown its three pieces ("a", "" and
\* "b"), the in-progress text is "a  b" with both spaces, and the stop button
\* is rendered for a cancel.
C12_Witness ==
    /\ mounted
    /\ stopButtonRendered
    /\ streamIntervalRef # 0
    /\ timers[streamIntervalRef].text = A2B
    /\ timers[streamIntervalRef].currentIndex = 3
    /\ streamingMessage = A2B
    /\ Len(messages) < MaxMessages

====
